---- MODULE Spec2Model ----
(***************************************************************************)
(* A model of two telemetry primitives:                                    *)
(*   - RangeGauge (foundations/src/telemetry/metrics/gauge.rs): a gauge    *)
(*     with three atomics value/min/max, CAS loops for the extrema and a   *)
(*     read-for-encode that swaps the extrema;                             *)
(*   - the log context (bedrock/src/telemetry/log/internal.rs): LogScope,  *)
(*     current_log, add_log_fields and fork over shared log handles.       *)
(* Every atomic access of the source is one step of a thread.              *)
(***************************************************************************)
EXTENDS Integers, Sequences, FiniteSets, TLC

\* ------------------------------------------------------------------------
\* Bounds
\* ------------------------------------------------------------------------
NumThreads == 2        \* threads sharing the gauge / the log harness
MaxArg == 2            \* largest v passed to inc_by / dec_by / set by concurrent callers
MaxCalls == 2          \* calls issued by each thread in the concurrent runs
NumFields == 2         \* distinct log fields
MaxDepth == 2          \* nesting depth of scopes per thread
MaxForks == 1          \* handles made by fork
MaxLogCalls == 4       \* calls made on the log context in a run
MaxVal == 3            \* largest counter value in the single-threaded runs
MaxLiveCalls == 3      \* calls made on the gauge in a fair concurrent run
MaxCreditCalls == 4    \* calls made on the gauge in a run of matched inc_by / dec_by

Threads == 1..NumThreads
Main == 1              \* the thread of the single-threaded runs

\* ------------------------------------------------------------------------
\* u64 arithmetic.  A u64 x is represented by the integer x when x is near
\* 0 and by x - 2^64 (a negative integer) when x is near 2^64, so that
\* wrapping addition and subtraction are plain integer + and -, and only
\* the comparisons need to know about the wrap.
\* ------------------------------------------------------------------------
U64Lt(a, b) == IF (a < 0) = (b < 0) THEN a < b ELSE b < 0
U64Le(a, b) == a = b \/ U64Lt(a, b)
U64Min(a, b) == IF U64Lt(b, a) THEN b ELSE a
U64Max(a, b) == IF U64Lt(a, b) THEN b ELSE a
\* `prev + v` / `prev - v` leave the range of u64 (a panic in a build with
\* overflow checks, a wrap otherwise)
AddOverflows(a, b) == a < 0 /\ a + b >= 0
SubOverflows(a, b) == a >= 0 /\ a - b < 0

VARIABLES
  value,        \* RangeGauge.gauge (AtomicU64)
  min,          \* RangeGauge.min
  max,          \* RangeGauge.max
  th,           \* per thread: position in the current call and its locals
  out,          \* per thread: the series the last encode has written so far
  \* history variables of the gauge runs
  calls,        \* per thread: number of calls issued
  hist,         \* values the counter held since the previous read-for-encode
  seen,         \* hist as it was when the last read-for-encode finished
  pre,          \* value/min/max when the current call started
  dirty,        \* an update was called since the last read-for-encode finished
  cleanread,    \* the current/last read-for-encode started with dirty = FALSE
  overlap,      \* a read-for-encode has run while an update was in progress
  underflowed,  \* a dec_by(v) has been applied to a value below v
  \* the log context
  stack,        \* per thread: LogHarness.log_ctx_stack, the handles pushed, top last
  logger,       \* per allocated SharedLog handle: the fields of the Logger it holds
  wlock,        \* per handle: the thread holding the write lock, or 0
  rlock,        \* per handle: the threads holding a read lock
  lt,           \* per thread: position in the current log call and its locals
  \* history variables of the log context
  saved,        \* per thread, per open scope: what current_log() was at entry
  forkedFrom,   \* per handle made by fork: the handle it was forked from
  lcalls,       \* number of calls the threads have made on the log context
  panics,       \* handles of which a lock was held by a thread that panicked
  \* further history variables of the concurrent gauge runs
  retried,      \* a compare_exchange has failed and its loop has gone round again
  recmax,       \* greatest candidate whose update_max finished since max was last swapped
  recmin,       \* least candidate whose update_min finished since min was last swapped
  credit        \* per thread and amount v: its inc_by(v) returned and not yet matched by a dec_by(v)

hvars == <<calls, hist, seen, pre, dirty, cleanread, overlap, underflowed,
          stack, logger, wlock, rlock, lt, saved, forkedFrom, lcalls, panics,
               retried, recmax, recmin, credit>>
lvars == <<stack, logger, wlock, rlock, lt, saved, forkedFrom, lcalls, panics>>
vars == <<value, min, max, th, out, calls, hist, seen, pre, dirty, cleanread, overlap,
          underflowed, stack, logger, wlock, rlock, lt, saved, forkedFrom, lcalls, panics,
               retried, recmax, recmin, credit>>

\* the process-wide root log (harness.root_log), the first handle allocated
Root == 0
LIdle == [pc |-> "idle", op |-> "none", log |-> Root, fields |-> {}, new |-> {},
          res |-> Root, target |-> 0]

Idle == [pc |-> "idle", op |-> "none", v |-> 0, prev |-> 0, new |-> 0,
         current |-> 0, emin |-> 0, emax |-> 0, ret |-> 0]

\* RangeGauge::default(), no call issued yet
Init ==
  /\ value = 0 /\ min = 0 /\ max = 0
  /\ th = [t \in Threads |-> Idle]
  /\ out = [t \in Threads |-> << >>]
  /\ calls = [t \in Threads |-> 0]
  /\ hist = {0} /\ seen = {0}
  /\ pre = [value |-> 0, min |-> 0, max |-> 0]
  /\ dirty = FALSE /\ cleanread = FALSE
  /\ overlap = FALSE /\ underflowed = FALSE
  /\ stack = [t \in Threads |-> << >>]
  /\ logger = [h \in {Root} |-> {}]
  /\ wlock = [h \in {Root} |-> 0]
  /\ rlock = [h \in {Root} |-> {}]
  /\ lt = [t \in Threads |-> LIdle]
  /\ saved = [t \in Threads |-> << >>]
  /\ forkedFrom = [h \in {Root} |-> Root]
  /\ lcalls = 0
  /\ panics = {}
  /\ retried = FALSE
  /\ recmax = {} /\ recmin = {}
  /\ credit = [t \in Threads |-> [v \in 1..MaxArg |-> 0]]

\* A call starts: the thread leaves "idle" with the operation and its argument.
Call(t, o, a, first) ==
  /\ th[t].pc = "idle"
  /\ th' = [th EXCEPT ![t] = [Idle EXCEPT !.pc = first, !.op = o, !.v = a]]
  /\ UNCHANGED <<value, min, max, out>>

\* ---- inc / inc_by ------------------------------------------------------
IncCall(t) == Call(t, "inc", 1, "inc_fetch")
IncByCall(t, v) == Call(t, "inc_by", v, "inc_fetch")

\* (faulty variant: the candidate for max is prev, not prev + v)
IncFetch_CandPrev(t) ==
  /\ th[t].pc = "inc_fetch"
  /\ value' = value + th[t].v
  /\ th' = [th EXCEPT ![t] = [@ EXCEPT !.pc = "umax_load", !.prev = value,
                                       !.new = value]]
  /\ UNCHANGED <<min, max, out>>

\* (faulty variant: the counter is incremented by one, whatever v)
IncFetch_AddsOne(t) ==
  /\ th[t].pc = "inc_fetch"
  /\ value' = value + 1
  /\ th' = [th EXCEPT ![t] = [@ EXCEPT !.pc = "umax_load", !.prev = value,
                                       !.new = value + 1]]
  /\ UNCHANGED <<min, max, out>>

\* let prev = self.gauge.inc_by(v); ... prev + v
IncFetch(t) ==
  /\ th[t].pc = "inc_fetch"
  /\ value' = value + th[t].v
  /\ th' = [th EXCEPT ![t] = [@ EXCEPT !.pc = "umax_load", !.prev = value,
                                       !.new = value + th[t].v]]
  /\ UNCHANGED <<min, max, out>>

\* the same, in a build with overflow checks, when prev + v overflows
IncFetchPanic(t) ==
  /\ th[t].pc = "inc_fetch"
  /\ AddOverflows(value, th[t].v)
  /\ value' = value + th[t].v
  /\ th' = [th EXCEPT ![t] = [@ EXCEPT !.pc = "panicked", !.prev = value]]
  /\ UNCHANGED <<min, max, out>>

\* ---- dec / dec_by ------------------------------------------------------
DecCall(t) == Call(t, "dec", 1, "dec_fetch")
DecByCall(t, v) == Call(t, "dec_by", v, "dec_fetch")

\* (faulty variant: the counter returns the new value, not the previous one)
DecFetch_RetNew(t) ==
  /\ th[t].pc = "dec_fetch"
  /\ value' = value - th[t].v
  /\ th' = [th EXCEPT ![t] = [@ EXCEPT !.pc = "umin_load", !.prev = value - th[t].v,
                                       !.new = value - th[t].v - th[t].v]]
  /\ UNCHANGED <<min, max, out>>

\* let prev = self.gauge.dec_by(v); ... prev - v
DecFetch(t) ==
  /\ th[t].pc = "dec_fetch"
  /\ value' = value - th[t].v
  /\ th' = [th EXCEPT ![t] = [@ EXCEPT !.pc = "umin_load", !.prev = value,
                                       !.new = value - th[t].v]]
  /\ UNCHANGED <<min, max, out>>

DecFetchPanic(t) ==
  /\ th[t].pc = "dec_fetch"
  /\ SubOverflows(value, th[t].v)
  /\ value' = value - th[t].v
  /\ th' = [th EXCEPT ![t] = [@ EXCEPT !.pc = "panicked", !.prev = value]]
  /\ UNCHANGED <<min, max, out>>

\* ---- set ---------------------------------------------------------------
SetCall(t, v) == Call(t, "set", v, "set_swap")

\* let prev = self.gauge.set(v);
SetSwap(t) ==
  /\ th[t].pc = "set_swap"
  /\ value' = th[t].v
  /\ th' = [th EXCEPT ![t] = [@ EXCEPT !.pc = "umax_load", !.prev = value,
                                       !.new = th[t].v]]
  /\ UNCHANGED <<min, max, out>>

\* ---- update_max --------------------------------------------------------
\* where the caller goes on after update_max: set calls update_min next
AfterUpdateMax(t) ==
  IF th[t].op = "set"
    THEN [th[t] EXCEPT !.pc = "umin_load", !.current = 0]
    ELSE [th[t] EXCEPT !.pc = "idle", !.ret = th[t].prev,
                       !.prev = 0, !.new = 0, !.current = 0]

\* let mut current_max = self.max.load(Relaxed); while current_max < new_max
UpdateMaxLoad(t) ==
  /\ th[t].pc = "umax_load"
  /\ th' = [th EXCEPT ![t] = IF U64Lt(max, th[t].new)
                               THEN [@ EXCEPT !.pc = "umax_cas", !.current = max]
                               ELSE AfterUpdateMax(t)]
  /\ UNCHANGED <<value, min, max, out>>

\* (faulty variant: the candidate is stored whatever max holds by then,
\* a store in the place of the compare_exchange)
UpdateMaxCas_Store(t) ==
  /\ th[t].pc = "umax_cas"
  /\ max' = th[t].new
  /\ th' = [th EXCEPT ![t] = AfterUpdateMax(t)]
  /\ UNCHANGED <<value, min, out>>

\* (faulty variant: a failed compare_exchange goes round again with the
\* value loaded before the loop, the Err(e) is not taken)
UpdateMaxCas_StaleRetry(t) ==
  /\ th[t].pc = "umax_cas"
  /\ IF max = th[t].current
       THEN /\ max' = th[t].new
            /\ th' = [th EXCEPT ![t] = AfterUpdateMax(t)]
       ELSE /\ max' = max
            /\ th' = th
  /\ UNCHANGED <<value, min, out>>

\* (faulty variant: a failed compare_exchange ends the loop instead of retrying)
UpdateMaxCas_NoRetry(t) ==
  /\ th[t].pc = "umax_cas"
  /\ IF max = th[t].current
       THEN /\ max' = th[t].new
            /\ th' = [th EXCEPT ![t] = AfterUpdateMax(t)]
       ELSE /\ max' = max
            /\ th' = [th EXCEPT ![t] = AfterUpdateMax(t)]
  /\ UNCHANGED <<value, min, out>>

\* self.max.compare_exchange(current_max, new_max, ..): Ok => break,
\* Err(e) => current_max = e, and the loop condition is tested again
UpdateMaxCas(t) ==
  /\ th[t].pc = "umax_cas"
  /\ IF max = th[t].current
       THEN /\ max' = th[t].new
            /\ th' = [th EXCEPT ![t] = AfterUpdateMax(t)]
       ELSE /\ max' = max
            /\ th' = [th EXCEPT ![t] = IF U64Lt(max, th[t].new)
                                         THEN [@ EXCEPT !.current = max]
                                         ELSE AfterUpdateMax(t)]
  /\ UNCHANGED <<value, min, out>>

\* ---- update_min --------------------------------------------------------
AfterUpdateMin(t) ==
  [th[t] EXCEPT !.pc = "idle", !.ret = th[t].prev,
                !.prev = 0, !.new = 0, !.current = 0]

\* let mut current_min = self.min.load(Relaxed); while current_min > new_min
UpdateMinLoad(t) ==
  /\ th[t].pc = "umin_load"
  /\ th' = [th EXCEPT ![t] = IF U64Lt(th[t].new, min)
                               THEN [@ EXCEPT !.pc = "umin_cas", !.current = min]
                               ELSE AfterUpdateMin(t)]
  /\ UNCHANGED <<value, min, max, out>>

\* (faulty variant: a new min is stored into max as well, the range is
\* collapsed on the candidate)
UpdateMinCas_BothFields(t) ==
  /\ th[t].pc = "umin_cas"
  /\ IF min = th[t].current
       THEN /\ min' = th[t].new /\ max' = th[t].new
            /\ th' = [th EXCEPT ![t] = AfterUpdateMin(t)]
       ELSE /\ min' = min /\ max' = max
            /\ th' = [th EXCEPT ![t] = IF U64Lt(th[t].new, min)
                                         THEN [@ EXCEPT !.current = min]
                                         ELSE AfterUpdateMin(t)]
  /\ UNCHANGED <<value, out>>

\* (faulty variant: the candidate is stored whatever min holds by then,
\* a store in the place of the compare_exchange)
UpdateMinCas_Store(t) ==
  /\ th[t].pc = "umin_cas"
  /\ min' = th[t].new
  /\ th' = [th EXCEPT ![t] = AfterUpdateMin(t)]
  /\ UNCHANGED <<value, max, out>>

\* (faulty variant: a failed compare_exchange ends the loop instead of retrying)
UpdateMinCas_NoRetry(t) ==
  /\ th[t].pc = "umin_cas"
  /\ IF min = th[t].current
       THEN /\ min' = th[t].new
            /\ th' = [th EXCEPT ![t] = AfterUpdateMin(t)]
       ELSE /\ min' = min
            /\ th' = [th EXCEPT ![t] = AfterUpdateMin(t)]
  /\ UNCHANGED <<value, max, out>>

\* self.min.compare_exchange(current_min, new_min, ..): Ok => break,
\* Err(e) => current_min = e, and the loop condition is tested again
UpdateMinCas(t) ==
  /\ th[t].pc = "umin_cas"
  /\ IF min = th[t].current
       THEN /\ min' = th[t].new
            /\ th' = [th EXCEPT ![t] = AfterUpdateMin(t)]
       ELSE /\ min' = min
            /\ th' = [th EXCEPT ![t] = IF U64Lt(th[t].new, min)
                                         THEN [@ EXCEPT !.current = min]
                                         ELSE AfterUpdateMin(t)]
  /\ UNCHANGED <<value, max, out>>

\* ---- get ---------------------------------------------------------------
\* self.gauge.get(): one atomic load
Get(t) ==
  /\ th[t].pc = "idle"
  /\ th' = [th EXCEPT ![t] = [Idle EXCEPT !.op = "get", !.ret = value]]
  /\ UNCHANGED <<value, min, max, out>>

\* ---- encode (read-for-encode) ------------------------------------------
EncodeCall(t) ==
  /\ th[t].pc = "idle"
  /\ th' = [th EXCEPT ![t] = [Idle EXCEPT !.pc = "enc_get", !.op = "encode"]]
  /\ out' = [out EXCEPT ![t] = << >>]
  /\ UNCHANGED <<value, min, max>>

\* let current = self.get();
EncGet(t) ==
  /\ th[t].pc = "enc_get"
  /\ th' = [th EXCEPT ![t] = [@ EXCEPT !.pc = "enc_swap_min", !.current = value]]
  /\ UNCHANGED <<value, min, max, out>>

\* let min = self.min.swap(current, Relaxed);
EncSwapMin(t) ==
  /\ th[t].pc = "enc_swap_min"
  /\ min' = th[t].current
  /\ th' = [th EXCEPT ![t] = [@ EXCEPT !.pc = "enc_swap_max", !.emin = min]]
  /\ UNCHANGED <<value, max, out>>

\* (faulty variant: max is loaded, not swapped)
EncSwapMax_Load(t) ==
  /\ th[t].pc = "enc_swap_max"
  /\ max' = max
  /\ th' = [th EXCEPT ![t] = [@ EXCEPT !.pc = "enc_w_value", !.emax = max]]
  /\ UNCHANGED <<value, min, out>>

\* let max = self.max.swap(current, Relaxed);
EncSwapMax(t) ==
  /\ th[t].pc = "enc_swap_max"
  /\ max' = th[t].current
  /\ th' = [th EXCEPT ![t] = [@ EXCEPT !.pc = "enc_w_value", !.emax = max]]
  /\ UNCHANGED <<value, min, out>>

\* encoder.no_suffix()?.no_bucket()?.encode_value(self.get())?
EncWriteValue(t) ==
  /\ th[t].pc = "enc_w_value"
  /\ out' = [out EXCEPT ![t] = Append(@, [suffix |-> "", val |-> value])]
  /\ th' = [th EXCEPT ![t] = [@ EXCEPT !.pc = "enc_w_min"]]
  /\ UNCHANGED <<value, min, max>>

\* encoder.encode_suffix("min")?.no_bucket()?.encode_value(min)?
EncWriteMin(t) ==
  /\ th[t].pc = "enc_w_min"
  /\ out' = [out EXCEPT ![t] = Append(@, [suffix |-> "min", val |-> th[t].emin])]
  /\ th' = [th EXCEPT ![t] = [@ EXCEPT !.pc = "enc_w_max"]]
  /\ UNCHANGED <<value, min, max>>

\* encoder.encode_suffix("max")?.no_bucket()?.encode_value(max)?; Ok(())
EncWriteMax(t) ==
  /\ th[t].pc = "enc_w_max"
  /\ out' = [out EXCEPT ![t] = Append(@, [suffix |-> "max", val |-> th[t].emax])]
  /\ th' = [th EXCEPT ![t] = [@ EXCEPT !.pc = "idle"]]
  /\ UNCHANGED <<value, min, max>>

\* the write step a read-for-encode is at: 1 value, 2 min, 3 max, 0 none
WriteStep(t) ==
  CASE th[t].pc = "enc_w_value" -> 1
    [] th[t].pc = "enc_w_min" -> 2
    [] th[t].pc = "enc_w_max" -> 3
    [] OTHER -> 0

\* (faulty variant: the error of a write is dropped and encode goes on)
EncWriteErr_Suppress(t) ==
  /\ WriteStep(t) > 0
  /\ th' = [th EXCEPT ![t] = [@ EXCEPT !.pc = CASE WriteStep(t) = 1 -> "enc_w_min"
                                               [] WriteStep(t) = 2 -> "enc_w_max"
                                               [] OTHER -> "idle"]]
  /\ UNCHANGED <<value, min, max, out>>

\* one of the `?` of a write step gets Err(e) from the encoder: encode
\* returns Err(e) there, `ret` keeps the step that failed
EncWriteErr(t) ==
  /\ WriteStep(t) > 0
  /\ th' = [th EXCEPT ![t] = [@ EXCEPT !.pc = "idle", !.op = "encode_err",
                                       !.ret = WriteStep(t)]]
  /\ UNCHANGED <<value, min, max, out>>

\* ------------------------------------------------------------------------
\* Single-threaded runs: one thread, one call at a time, every dec_by(v)
\* applied when value >= v, the counter kept within 0..MaxVal.
\* ------------------------------------------------------------------------
Snapshot == [value |-> value, min |-> min, max |-> max]

SeqUpdateCall ==
  /\ pre' = Snapshot /\ dirty' = TRUE
  /\ UNCHANGED <<calls, hist, seen, cleanread, overlap, underflowed, stack, logger, wlock, rlock,
               lt, saved, forkedFrom, lcalls, panics,
               retried, recmax, recmin, credit>>

SeqInc == value + 1 <= MaxVal /\ IncCall(Main) /\ SeqUpdateCall
SeqIncBy == \E v \in 0..MaxVal : value + v <= MaxVal /\ IncByCall(Main, v) /\ SeqUpdateCall
SeqDec == value >= 1 /\ DecCall(Main) /\ SeqUpdateCall
SeqDecBy == \E v \in 0..MaxVal : value >= v /\ DecByCall(Main, v) /\ SeqUpdateCall
SeqSet == \E v \in 0..MaxVal : SetCall(Main, v) /\ SeqUpdateCall
SeqGet ==
  /\ Get(Main) /\ pre' = Snapshot
  /\ UNCHANGED <<calls, hist, seen, dirty, cleanread, overlap, underflowed, stack, logger, wlock, rlock,
               lt, saved, forkedFrom, lcalls, panics,
               retried, recmax, recmin, credit>>
SeqEncode ==
  /\ EncodeCall(Main) /\ pre' = Snapshot /\ cleanread' = ~dirty
  /\ UNCHANGED <<calls, hist, seen, dirty, overlap, underflowed, stack, logger, wlock, rlock,
               lt, saved, forkedFrom, lcalls, panics,
               retried, recmax, recmin, credit>>

\* a step of an update: the values the counter takes are recorded
SeqUpdateHist ==
  /\ hist' = hist \cup {value'}
  /\ UNCHANGED <<calls, seen, pre, dirty, cleanread, overlap, underflowed, stack, logger, wlock, rlock,
               lt, saved, forkedFrom, lcalls, panics,
               retried, recmax, recmin, credit>>

\* the read-for-encode finishes: a new period starts at the current value
SeqEncodeDone ==
  /\ seen' = hist /\ hist' = {value} /\ dirty' = FALSE
  /\ UNCHANGED <<calls, pre, cleanread, overlap, underflowed, stack, logger, wlock, rlock,
               lt, saved, forkedFrom, lcalls, panics,
               retried, recmax, recmin, credit>>

SeqNext ==
  \/ SeqInc \/ SeqIncBy \/ SeqDec \/ SeqDecBy \/ SeqSet \/ SeqGet \/ SeqEncode
  \/ IncFetch(Main) /\ SeqUpdateHist
  \/ DecFetch(Main) /\ SeqUpdateHist
  \/ SetSwap(Main) /\ SeqUpdateHist
  \/ UpdateMaxLoad(Main) /\ SeqUpdateHist
  \/ UpdateMaxCas(Main) /\ SeqUpdateHist
  \/ UpdateMinLoad(Main) /\ SeqUpdateHist
  \/ UpdateMinCas(Main) /\ SeqUpdateHist
  \/ EncGet(Main) /\ UNCHANGED hvars
  \/ EncSwapMin(Main) /\ UNCHANGED hvars
  \/ EncSwapMax(Main) /\ UNCHANGED hvars
  \/ EncWriteValue(Main) /\ UNCHANGED hvars
  \/ EncWriteMin(Main) /\ UNCHANGED hvars
  \/ EncWriteMax(Main) /\ SeqEncodeDone

SpecSeq == Init /\ [][SeqNext]_vars

\* the same runs with an encoder whose writes may fail
EncNext ==
  \/ SeqNext
  \/ EncWriteErr(Main) /\ SeqEncodeDone

SpecEnc == Init /\ [][EncNext]_vars

\* ------------------------------------------------------------------------
\* Concurrent increments: NumThreads threads, each calling inc() MaxCalls
\* times on a fresh gauge, no read-for-encode.
\* ------------------------------------------------------------------------
IncOnlyCall(t) ==
  /\ calls[t] < MaxCalls
  /\ IncCall(t)
  /\ calls' = [calls EXCEPT ![t] = @ + 1]
  /\ UNCHANGED <<hist, seen, pre, dirty, cleanread, overlap, underflowed, stack, logger, wlock, rlock,
               lt, saved, forkedFrom, lcalls, panics,
               retried, recmax, recmin, credit>>

IncOnlyHist ==
  /\ hist' = hist \cup {value'}
  /\ UNCHANGED <<calls, seen, pre, dirty, cleanread, overlap, underflowed, stack, logger, wlock, rlock,
               lt, saved, forkedFrom, lcalls, panics,
               retried, recmax, recmin, credit>>

IncOnlyNext ==
  \E t \in Threads :
    \/ IncOnlyCall(t)
    \/ IncFetch(t) /\ IncOnlyHist
    \/ UpdateMaxLoad(t) /\ IncOnlyHist
    \/ UpdateMaxCas(t) /\ IncOnlyHist

SpecInc == Init /\ [][IncOnlyNext]_vars

\* ------------------------------------------------------------------------
\* Concurrent runs: every thread issues up to MaxCalls calls of inc_by,
\* dec_by, set and encode with arguments up to MaxArg, in any interleaving
\* of their atomic steps.
\* ------------------------------------------------------------------------
InEncode(r) == r.pc \in {"enc_get", "enc_swap_min", "enc_swap_max",
                         "enc_w_value", "enc_w_min", "enc_w_max"}
InUpdate(r) == r.pc \in {"inc_fetch", "dec_fetch", "set_swap", "umax_load",
                         "umax_cas", "umin_load", "umin_cas", "panicked"}

\* no call is partly executed
Quiescent == \A t \in Threads : th[t].pc = "idle"

\* at the compare_exchange of one of the two loops
InLoop(r) == r.pc \in {"umax_cas", "umin_cas"}

\* the most extreme candidate whose update_max (isMax) or update_min has
\* finished since the last swap of that extremum by a read-for-encode: the
\* step of thread t leaves a loop at pcs `loop`, or does the swap at `swap`
Recorded(rec, t, loop, swap, isMax) ==
  IF th[t].pc = swap THEN {}
  ELSE IF th[t].pc \in loop /\ th'[t].pc \notin loop
    THEN IF rec = {} THEN {th[t].new}
         ELSE {IF isMax THEN U64Max(CHOOSE c \in rec : TRUE, th[t].new)
                        ELSE U64Min(CHOOSE c \in rec : TRUE, th[t].new)}
    ELSE rec

ConcHist(t) ==
  /\ overlap' = (overlap \/ ((\E a \in Threads : InEncode(th'[a]))
                              /\ (\E b \in Threads : InUpdate(th'[b]))))
  /\ underflowed' = (underflowed \/ (th[t].pc = "dec_fetch" /\ U64Lt(value, th[t].v)))
  /\ retried' = (retried \/ (InLoop(th[t]) /\ th'[t].pc = th[t].pc))
  /\ recmax' = Recorded(recmax, t, {"umax_load", "umax_cas"}, "enc_swap_max", TRUE)
  /\ recmin' = Recorded(recmin, t, {"umin_load", "umin_cas"}, "enc_swap_min", FALSE)
  /\ UNCHANGED <<hist, seen, pre, dirty, cleanread, credit>>
  /\ UNCHANGED lvars

ConcCall(t) ==
  /\ calls[t] < MaxCalls
  /\ calls' = [calls EXCEPT ![t] = @ + 1]
  /\ ConcHist(t)

ConcStep(t) == UNCHANGED calls /\ ConcHist(t)

ConcNext ==
  \E t \in Threads :
    \/ \E v \in 1..MaxArg : IncByCall(t, v) /\ ConcCall(t)
    \/ \E v \in 1..MaxArg : DecByCall(t, v) /\ ConcCall(t)
    \/ \E v \in 0..MaxArg : SetCall(t, v) /\ ConcCall(t)
    \/ EncodeCall(t) /\ ConcCall(t)
    \/ IncFetch(t) /\ ConcStep(t)
    \/ IncFetchPanic(t) /\ ConcStep(t)
    \/ DecFetch(t) /\ ConcStep(t)
    \/ DecFetchPanic(t) /\ ConcStep(t)
    \/ SetSwap(t) /\ ConcStep(t)
    \/ UpdateMaxLoad(t) /\ ConcStep(t)
    \/ UpdateMaxCas(t) /\ ConcStep(t)
    \/ UpdateMinLoad(t) /\ ConcStep(t)
    \/ UpdateMinCas(t) /\ ConcStep(t)
    \/ EncGet(t) /\ ConcStep(t)
    \/ EncSwapMin(t) /\ ConcStep(t)
    \/ EncSwapMax(t) /\ ConcStep(t)
    \/ EncWriteValue(t) /\ ConcStep(t)
    \/ EncWriteMin(t) /\ ConcStep(t)
    \/ EncWriteMax(t) /\ ConcStep(t)

SpecConc == Init /\ [][ConcNext]_vars

\* the next atomic operation of the call thread t is in
GaugeStep(t) ==
  \/ IncFetch(t) \/ IncFetchPanic(t) \/ DecFetch(t) \/ DecFetchPanic(t) \/ SetSwap(t)
  \/ UpdateMaxLoad(t) \/ UpdateMaxCas(t) \/ UpdateMinLoad(t) \/ UpdateMinCas(t)
  \/ EncGet(t) \/ EncSwapMin(t) \/ EncSwapMax(t)
  \/ EncWriteValue(t) \/ EncWriteMin(t) \/ EncWriteMax(t)

\* the calls issued so far, by all the threads
RECURSIVE CallsUpTo(_)
CallsUpTo(n) == IF n = 0 THEN 0 ELSE calls[n] + CallsUpTo(n - 1)

\* ------------------------------------------------------------------------
\* Matched runs: every thread calls dec_by(v) only after an inc_by(v) of its
\* own has returned that no dec_by(v) of its own has matched yet; a thread
\* may read for encode at any time.
\* ------------------------------------------------------------------------
CreditHist(t, spent) ==
  /\ credit' = [credit EXCEPT ![t] =
                  [v \in 1..MaxArg |->
                     @[v] + (IF th[t].op = "inc_by" /\ th[t].pc # "idle"
                                /\ th'[t].pc = "idle" /\ th[t].v = v THEN 1 ELSE 0)
                          - (IF spent = v THEN 1 ELSE 0)]]
  /\ UNCHANGED <<hist, seen, pre, dirty, cleanread, overlap, underflowed,
                 retried, recmax, recmin>>
  /\ UNCHANGED lvars

CreditCall(t, spent) ==
  /\ CallsUpTo(NumThreads) < MaxCreditCalls
  /\ calls' = [calls EXCEPT ![t] = @ + 1]
  /\ CreditHist(t, spent)

CreditStep(t) == UNCHANGED calls /\ CreditHist(t, 0)

CreditNext ==
  \E t \in Threads :
    \/ \E v \in 1..MaxArg : IncByCall(t, v) /\ CreditCall(t, 0)
    \/ \E v \in 1..MaxArg : credit[t][v] > 0 /\ DecByCall(t, v) /\ CreditCall(t, v)
    \/ EncodeCall(t) /\ CreditCall(t, 0)
    \/ IncFetch(t) /\ CreditStep(t)
    \/ DecFetch(t) /\ CreditStep(t)
    \/ UpdateMaxLoad(t) /\ CreditStep(t)
    \/ UpdateMaxCas(t) /\ CreditStep(t)
    \/ UpdateMinLoad(t) /\ CreditStep(t)
    \/ UpdateMinCas(t) /\ CreditStep(t)
    \/ EncGet(t) /\ CreditStep(t)
    \/ EncSwapMin(t) /\ CreditStep(t)
    \/ EncSwapMax(t) /\ CreditStep(t)
    \/ EncWriteValue(t) /\ CreditStep(t)
    \/ EncWriteMin(t) /\ CreditStep(t)
    \/ EncWriteMax(t) /\ CreditStep(t)

SpecCredit == Init /\ [][CreditNext]_vars

\* ------------------------------------------------------------------------
\* Fair concurrent runs: the threads of the concurrent runs, each one that
\* is inside a call scheduled again and again.
\* ------------------------------------------------------------------------
LiveHist(t) ==
  /\ retried' = (retried \/ (InLoop(th[t]) /\ th'[t].pc = th[t].pc))
  /\ UNCHANGED <<hist, seen, pre, dirty, cleanread, overlap, underflowed,
                 recmax, recmin, credit>>
  /\ UNCHANGED lvars

LiveCall(t) ==
  /\ CallsUpTo(NumThreads) < MaxLiveCalls
  /\ calls' = [calls EXCEPT ![t] = @ + 1]
  /\ LiveHist(t)

LiveStep(t) == GaugeStep(t) /\ UNCHANGED calls /\ LiveHist(t)

LiveNext ==
  \E t \in Threads :
    \/ \E v \in 1..MaxArg : IncByCall(t, v) /\ LiveCall(t)
    \/ \E v \in 1..MaxArg : DecByCall(t, v) /\ LiveCall(t)
    \/ \E v \in 0..MaxArg : SetCall(t, v) /\ LiveCall(t)
    \/ EncodeCall(t) /\ LiveCall(t)
    \/ LiveStep(t)

SpecLive == Init /\ [][LiveNext]_vars /\ \A t \in Threads : WF_vars(LiveStep(t))

\* ------------------------------------------------------------------------
\* The log context (bedrock/src/telemetry/log/internal.rs)
\* ------------------------------------------------------------------------
Fields == 1..NumFields
Handles == DOMAIN logger

\* slog's Logger::new(fields): a logger with the fields of this one and `fields`
LoggerNew(l, fields) == l \cup fields

\* ContextStack: push, pop of the top and peek of the top (an Option, here a
\* sequence of length 0 or 1), one stack per thread
Push(s, x) == Append(s, x)
Pop(s) == SubSeq(s, 1, Len(s) - 1)
Current(s) == IF s = << >> THEN << >> ELSE << s[Len(s)] >>

\* (faulty variant: the oldest scope of the stack is taken as the current one)
CurrentLog_Bottom(t) ==
  LET log == Current(stack[t])
  IN  IF log = << >> THEN Root ELSE stack[t][1]

\* current_log(): harness.log_ctx_stack.current()
\*                  .unwrap_or_else(|| Arc::clone(&harness.root_log))
CurrentLog(t) ==
  LET log == Current(stack[t])
  IN  IF log = << >> THEN Root ELSE log[1]

\* a call of current_log() by the application
CurrentLogCall(t) ==
  /\ lt[t].pc = "idle"
  /\ lt' = [lt EXCEPT ![t] = [LIdle EXCEPT !.op = "current_log", !.res = CurrentLog(t)]]
  /\ UNCHANGED <<stack, logger, wlock, rlock, saved, forkedFrom>>

\* (faulty variant: the scope is pushed twice)
LogScopeNew_PushTwice(t, log) ==
  /\ lt[t].pc = "idle"
  /\ log \in Handles
  /\ stack' = [stack EXCEPT ![t] = Push(Push(@, log), log)]
  /\ saved' = [saved EXCEPT ![t] = Append(@, CurrentLog(t))]
  /\ lt' = [lt EXCEPT ![t] = LIdle]
  /\ UNCHANGED <<logger, wlock, rlock, forkedFrom>>

\* (faulty variant: one stack for the whole process)
LogScopeNew_Global(t, log) ==
  /\ lt[t].pc = "idle"
  /\ log \in Handles
  /\ stack' = [u \in Threads |-> IF u = t \/ Len(stack[u]) < MaxDepth
                                   THEN Push(stack[u], log) ELSE stack[u]]
  /\ saved' = [saved EXCEPT ![t] = Append(@, CurrentLog(t))]
  /\ lt' = [lt EXCEPT ![t] = LIdle]
  /\ UNCHANGED <<logger, wlock, rlock, forkedFrom>>

\* LogScope::new(log): CurrentContextHandle::new pushes log on the stack of
\* the calling thread
LogScopeNew(t, log) ==
  /\ lt[t].pc = "idle"
  /\ log \in Handles
  /\ stack' = [stack EXCEPT ![t] = Push(@, log)]
  /\ saved' = [saved EXCEPT ![t] = Append(@, CurrentLog(t))]
  /\ lt' = [lt EXCEPT ![t] = LIdle]
  /\ UNCHANGED <<logger, wlock, rlock, forkedFrom>>

\* the LogScope goes out of scope: its CurrentContextHandle pops the top
LogScopeDrop(t) ==
  /\ lt[t].pc = "idle"
  /\ stack[t] # << >>
  /\ stack' = [stack EXCEPT ![t] = Pop(@)]
  /\ saved' = [saved EXCEPT ![t] = SubSeq(@, 1, Len(@) - 1)]
  /\ lt' = [lt EXCEPT ![t] = LIdle]
  /\ UNCHANGED <<logger, wlock, rlock, forkedFrom>>

\* the body of a scope fails: the error unwinds out of the scopes above
\* depth `target`, dropping their LogScopes innermost first
Unwind(t, target) ==
  /\ lt[t].pc = "idle"
  /\ target < Len(stack[t])
  /\ lt' = [lt EXCEPT ![t] = [LIdle EXCEPT !.pc = "unwinding", !.op = "unwind",
                                           !.target = target]]
  /\ UNCHANGED <<stack, logger, wlock, rlock, saved, forkedFrom>>

UnwindDrop(t) ==
  /\ lt[t].pc = "unwinding"
  /\ stack' = [stack EXCEPT ![t] = Pop(@)]
  /\ saved' = [saved EXCEPT ![t] = SubSeq(@, 1, Len(@) - 1)]
  /\ lt' = [lt EXCEPT ![t] = IF Len(stack[t]) - 1 = lt[t].target
                               THEN IF lt[t].op = "panicked"
                                      THEN [LIdle EXCEPT !.pc = "panicked", !.op = "panicked"]
                                      ELSE [LIdle EXCEPT !.op = "unwound"]
                               ELSE @]
  /\ UNCHANGED <<logger, wlock, rlock, forkedFrom>>

\* add_log_fields(fields): let log = current_log();
AddLogFieldsCall(t, fields) ==
  /\ lt[t].pc = "idle"
  /\ lt' = [lt EXCEPT ![t] = [LIdle EXCEPT !.pc = "alf_write", !.op = "add_log_fields",
                                           !.log = CurrentLog(t), !.fields = fields]]
  /\ UNCHANGED <<stack, logger, wlock, rlock, saved, forkedFrom>>

\* (faulty variant: the write lock is taken without waiting for its holders)
AddLogFieldsLock_NoExclusion(t) ==
  /\ lt[t].pc = "alf_write"
  /\ wlock' = [wlock EXCEPT ![lt[t].log] = t]
  /\ lt' = [lt EXCEPT ![t] = [@ EXCEPT !.pc = "alf_derive"]]
  /\ UNCHANGED <<stack, logger, rlock, saved, forkedFrom>>

\* let mut log_lock = log.write();
AddLogFieldsLock(t) ==
  /\ lt[t].pc = "alf_write"
  /\ wlock[lt[t].log] = 0 /\ rlock[lt[t].log] = {}
  /\ wlock' = [wlock EXCEPT ![lt[t].log] = t]
  /\ lt' = [lt EXCEPT ![t] = [@ EXCEPT !.pc = "alf_derive"]]
  /\ UNCHANGED <<stack, logger, rlock, saved, forkedFrom>>

\* log_lock.new(fields): the derived logger is built from the one held
AddLogFieldsDerive(t) ==
  /\ lt[t].pc = "alf_derive"
  /\ lt' = [lt EXCEPT ![t] = [@ EXCEPT !.pc = "alf_assign",
                                       !.new = LoggerNew(logger[lt[t].log], lt[t].fields)]]
  /\ UNCHANGED <<stack, logger, wlock, rlock, saved, forkedFrom>>

\* the write guard is dropped: the lock is free if this thread held it
WriteUnlock(t, h) == [wlock EXCEPT ![h] = IF @ = t THEN 0 ELSE @]

\* (faulty variant: the derived logger goes into a new handle, the shared one is left)
AddLogFieldsAssign_Copy(t) ==
  /\ lt[t].pc = "alf_assign"
  /\ LET new == Cardinality(Handles)
     IN  /\ logger' = [h \in Handles \cup {new} |->
                         IF h = new THEN lt[t].new ELSE logger[h]]
         /\ wlock' = [h \in Handles \cup {new} |-> 0]
         /\ rlock' = [h \in Handles \cup {new} |-> IF h = new THEN {} ELSE rlock[h]]
         /\ forkedFrom' = [h \in Handles \cup {new} |->
                             IF h = new THEN lt[t].log ELSE forkedFrom[h]]
  /\ lt' = [lt EXCEPT ![t] = LIdle]
  /\ UNCHANGED <<stack, saved>>

\* (faulty variant: the root logger is never replaced)
AddLogFieldsAssign_SkipRoot(t) ==
  /\ lt[t].pc = "alf_assign"
  /\ logger' = IF lt[t].log = Root THEN logger
                ELSE [logger EXCEPT ![lt[t].log] = lt[t].new]
  /\ wlock' = WriteUnlock(t, lt[t].log)
  /\ lt' = [lt EXCEPT ![t] = [@ EXCEPT !.pc = "idle", !.new = {}]]
  /\ UNCHANGED <<stack, rlock, saved, forkedFrom>>

\* *log_lock = <the derived logger>; and the write guard is dropped
AddLogFieldsAssign(t) ==
  /\ lt[t].pc = "alf_assign"
  /\ logger' = [logger EXCEPT ![lt[t].log] = lt[t].new]
  /\ wlock' = WriteUnlock(t, lt[t].log)
  /\ lt' = [lt EXCEPT ![t] = [@ EXCEPT !.pc = "idle", !.new = {}]]
  /\ UNCHANGED <<stack, rlock, saved, forkedFrom>>

\* where a thread goes when it panics: its scopes are dropped as it unwinds
AfterPanic(t) ==
  IF stack[t] = << >>
    THEN [LIdle EXCEPT !.pc = "panicked", !.op = "panicked"]
    ELSE [LIdle EXCEPT !.pc = "unwinding", !.op = "panicked", !.target = 0]

\* (faulty variant: a panic leaves the write lock held, as a lock that is
\* never released by a dead holder)
AddLogFieldsPanic_Held(t) ==
  /\ lt[t].pc = "alf_derive"
  /\ lt' = [lt EXCEPT ![t] = AfterPanic(t)]
  /\ UNCHANGED <<stack, logger, wlock, rlock, saved, forkedFrom>>

\* the thread panics while it holds the write guard (in log_lock.new): the
\* guard is dropped by the unwinding, parking_lot's lock is released and not
\* poisoned, the logger held is the one last assigned
AddLogFieldsPanic(t) ==
  /\ lt[t].pc = "alf_derive"
  /\ wlock' = WriteUnlock(t, lt[t].log)
  /\ lt' = [lt EXCEPT ![t] = AfterPanic(t)]
  /\ UNCHANGED <<stack, logger, rlock, saved, forkedFrom>>

\* fork(): let parent = current_log();
ForkCall(t) ==
  /\ lt[t].pc = "idle"
  /\ lt' = [lt EXCEPT ![t] = [LIdle EXCEPT !.pc = "fork_read", !.op = "fork",
                                           !.log = CurrentLog(t)]]
  /\ UNCHANGED <<stack, logger, wlock, rlock, saved, forkedFrom>>

\* parent.read()
ForkRead(t) ==
  /\ lt[t].pc = "fork_read"
  /\ wlock[lt[t].log] = 0
  /\ rlock' = [rlock EXCEPT ![lt[t].log] = @ \cup {t}]
  /\ lt' = [lt EXCEPT ![t] = [@ EXCEPT !.pc = "fork_new"]]
  /\ UNCHANGED <<stack, logger, wlock, saved, forkedFrom>>

\* the thread panics while it holds the read guard (in <guard>.new)
ForkPanic(t) ==
  /\ lt[t].pc = "fork_new"
  /\ rlock' = [rlock EXCEPT ![lt[t].log] = @ \ {t}]
  /\ lt' = [lt EXCEPT ![t] = AfterPanic(t)]
  /\ UNCHANGED <<stack, logger, wlock, saved, forkedFrom>>

\* (faulty variant: the parent handle itself is returned)
ForkNew_Alias(t) ==
  /\ lt[t].pc = "fork_new"
  /\ rlock' = [rlock EXCEPT ![lt[t].log] = @ \ {t}]
  /\ lt' = [lt EXCEPT ![t] = [LIdle EXCEPT !.op = "fork", !.res = lt[t].log]]
  /\ UNCHANGED <<stack, logger, wlock, saved, forkedFrom>>

\* let log = <guard>.new(slog::o!()); the read lock is released;
\* Arc::new(parking_lot::RwLock::new(log))
ForkNew(t) ==
  /\ lt[t].pc = "fork_new"
  /\ LET new == Cardinality(Handles)
     IN  /\ logger' = [h \in Handles \cup {new} |->
                         IF h = new THEN LoggerNew(logger[lt[t].log], {}) ELSE logger[h]]
         /\ wlock' = [h \in Handles \cup {new} |-> IF h = new THEN 0 ELSE wlock[h]]
         /\ rlock' = [h \in Handles \cup {new} |->
                         IF h = new THEN {} ELSE rlock[h] \ {t}]
         /\ forkedFrom' = [h \in Handles \cup {new} |->
                             IF h = new THEN lt[t].log ELSE forkedFrom[h]]
         /\ lt' = [lt EXCEPT ![t] = [LIdle EXCEPT !.op = "fork", !.res = new]]
  /\ UNCHANGED <<stack, saved>>

\* a call is issued while the budget of calls lasts
LogCall ==
  /\ lcalls < MaxLogCalls
  /\ lcalls' = lcalls + 1
  /\ UNCHANGED <<value, min, max, th, out, calls, hist, seen, pre, dirty, cleanread,
                 overlap, underflowed, panics, retried, recmax, recmin, credit>>

LogStep ==
  UNCHANGED <<value, min, max, th, out, calls, hist, seen, pre, dirty, cleanread,
              overlap, underflowed, lcalls, panics, retried, recmax, recmin, credit>>

\* a thread panics inside a call, holding a lock of the handle it resolved
LogPanic(t) ==
  /\ panics' = panics \cup {lt[t].log}
  /\ UNCHANGED <<value, min, max, th, out, calls, hist, seen, pre, dirty, cleanread,
                 overlap, underflowed, lcalls, retried, recmax, recmin, credit>>

Forking == {t \in Threads : lt[t].pc \in {"fork_read", "fork_new"}}

\* Threads enter and leave scopes on any handle, resolve the current log, add
\* fields to it and fork it, in any interleaving.
LogNext ==
  \E t \in Threads :
    \/ \E h \in Handles : Len(stack[t]) < MaxDepth /\ LogScopeNew(t, h) /\ LogCall
    \/ LogScopeDrop(t) /\ LogStep
    \/ \E k \in 0..MaxDepth : Unwind(t, k) /\ LogCall
    \/ UnwindDrop(t) /\ LogStep
    \/ CurrentLogCall(t) /\ LogCall
    \/ \E f \in Fields : AddLogFieldsCall(t, {f}) /\ LogCall
    \/ AddLogFieldsLock(t) /\ LogStep
    \/ AddLogFieldsDerive(t) /\ LogStep
    \/ AddLogFieldsAssign(t) /\ LogStep
    \/ AddLogFieldsPanic(t) /\ LogPanic(t)
    \/ ForkPanic(t) /\ LogPanic(t)
    \/ Cardinality(Handles) + Cardinality(Forking) <= MaxForks /\ ForkCall(t) /\ LogCall
    \/ ForkRead(t) /\ LogStep
    \/ ForkNew(t) /\ LogStep

SpecLog == Init /\ [][LogNext]_vars

\* what the last read-for-encode of thread t has emitted
Emitted(t) == [value |-> out[t][1].val, min |-> out[t][2].val, max |-> out[t][3].val]
Finished(t, ops) == th[t].pc = "idle" /\ th[t].op \in ops

\* C1: single-threaded, the min and max a read-for-encode emits bracket every
\* value the counter held since the previous read-for-encode (or creation),
\* the intermediate values included.
C1_EmittedRangeBrackets ==
  Finished(Main, {"encode"}) =>
    \A x \in seen : U64Le(Emitted(Main).min, x) /\ U64Le(x, Emitted(Main).max)

\* a read whose period held a value strictly inside the emitted range that is
\* not the value emitted
C1_Witness ==
  /\ Finished(Main, {"encode"})
  /\ \E x \in seen : /\ Emitted(Main).min < x /\ x < Emitted(Main).max
                      /\ x # Emitted(Main).value
  /\ Cardinality(seen) >= 4

\* C2: after a read-for-encode the stored min and max equal the value the
\* read observed, and a read with no update since the previous read emits
\* three equal numbers.
C2_ReadResetsRange ==
  Finished(Main, {"encode"}) =>
    /\ min = th[Main].current /\ max = th[Main].current
    /\ cleanread => /\ Emitted(Main).value = Emitted(Main).min
                    /\ Emitted(Main).value = Emitted(Main).max
                    /\ Emitted(Main).value = value

\* a second read right after a read of a range that was not a point
C2_Witness ==
  /\ Finished(Main, {"encode"}) /\ cleanread
  /\ value >= 1 /\ Cardinality(seen) = 1 /\ Emitted(Main).value = value

\* C3: each operation run alone has the effect of the transition table.
C3_TransitionTable ==
  LET m == th[Main]
      by == IF m.op \in {"inc", "dec"} THEN 1 ELSE m.v
  IN  /\ Finished(Main, {"inc", "inc_by"}) =>
            /\ value = pre.value + by
            /\ max = U64Max(pre.max, pre.value + by)
            /\ min = pre.min
            /\ m.ret = pre.value
      /\ Finished(Main, {"dec", "dec_by"}) =>
            /\ value = pre.value - by
            /\ min = U64Min(pre.min, pre.value - by)
            /\ max = pre.max
            /\ m.ret = pre.value
      /\ Finished(Main, {"set"}) =>
            /\ value = m.v
            /\ min = U64Min(pre.min, m.v)
            /\ max = U64Max(pre.max, m.v)
            /\ m.ret = pre.value
      /\ Finished(Main, {"get"}) =>
            /\ m.ret = value
            /\ Snapshot = pre

\* a dec_by(2) that lowered min and returned the previous value
C3_Witness ==
  /\ Finished(Main, {"dec_by"}) /\ th[Main].v = 2
  /\ min < pre.min /\ th[Main].ret = value + 2 /\ max > value

\* C4: when NumThreads threads have each called inc() MaxCalls times with no
\* read-for-encode, value = NumThreads * MaxCalls, the stored max is at least
\* that, and the stored min is at most every value the counter reached.
AllIncsReturned == Quiescent /\ \A t \in Threads : calls[t] = MaxCalls

C4_ConcurrentIncs ==
  AllIncsReturned =>
    /\ value = NumThreads * MaxCalls
    /\ U64Le(NumThreads * MaxCalls, max)
    /\ \A x \in hist : U64Le(min, x)

\* all calls returned, the counter having passed through every value
C4_Witness ==
  /\ AllIncsReturned
  /\ hist = 0..(NumThreads * MaxCalls)
  /\ \A t \in Threads : th[t].op = "inc"

\* C5 as claimed: in every quiescent state min <= value <= max, whatever
\* updates and reads-for-encode ran concurrently before.  (Stated on the runs
\* in which the counter never went below zero, so that what refutes it is an
\* interleaving and not a wrapped counter.)
C5_QuiescentOrdered_AsClaimed ==
  (Quiescent /\ ~underflowed) => U64Le(min, value) /\ U64Le(value, max)

\* C5, amended: in every quiescent state min <= value <= max, provided no
\* read-for-encode call has overlapped an inc_by/dec_by/set call and no
\* dec_by(v) was applied to a value below v.
C5_QuiescentOrdered ==
  (Quiescent /\ ~overlap /\ ~underflowed) => U64Le(min, value) /\ U64Le(value, max)

\* updates of two threads have raced, a read has run alone after them, and
\* further updates followed
C5_Witness ==
  /\ Quiescent /\ ~overlap /\ ~underflowed
  /\ \A t \in Threads : calls[t] = MaxCalls
  /\ \E t \in Threads : Len(out[t]) = 3 /\ out[t][3].val > out[t][2].val
  /\ min < value /\ value < max

LIdleAfter(t, o) == lt[t].pc = "idle" /\ lt[t].op = o
Top(s) == s[Len(s)]

\* C6: current_log() returns a live handle: the top of the calling thread's
\* stack when the stack is non-empty, the root log when it is empty.
C6_CurrentLogResolves ==
  \A t \in Threads :
    LIdleAfter(t, "current_log") =>
      /\ lt[t].res \in Handles
      /\ lt[t].res = IF Len(stack[t]) = 0 THEN Root ELSE Top(stack[t])

\* current_log() inside two nested scopes on different handles, the inner
\* one a forked handle
C6_Witness ==
  \E t \in Threads :
    /\ LIdleAfter(t, "current_log")
    /\ Len(stack[t]) = 2 /\ stack[t][1] # stack[t][2]
    /\ lt[t].res = stack[t][2] /\ lt[t].res # Root

\* C7: every open scope has pushed once, and a step that ends a scope (at its
\* end or while an error unwinds) pops exactly the top and leaves current_log()
\* of that thread at what it was when the scope was entered.
C7_ScopeExitRestores ==
  [][\A t \in Threads :
       /\ Len(saved[t]) = Len(stack[t])
       /\ (stack'[t] # stack[t] /\ Len(stack'[t]) <= Len(stack[t])) =>
            /\ stack'[t] = SubSeq(stack[t], 1, Len(stack[t]) - 1)
            /\ CurrentLog(t)' = Top(saved[t])]_vars

\* an error has unwound an inner scope of a thread, back into an outer scope
\* on a forked handle
C7_Witness ==
  \E t \in Threads :
    /\ LIdleAfter(t, "unwound")
    /\ Len(stack[t]) = 1 /\ CurrentLog(t) # Root

\* C8: the assignment of add_log_fields(fields) writes the handle H that is
\* current for the caller, in place: no handle is made, H holds its previous
\* fields plus `fields`, and every reference to H held on any stack reads them.
C8_AddMutatesShared ==
  [][\A t \in Threads :
       (lt[t].pc = "alf_assign" /\ lt'[t].pc = "idle") =>
         LET H == CurrentLog(t)
         IN  /\ lt[t].log = H
             /\ DOMAIN logger' = DOMAIN logger
             /\ logger'[H] = logger[H] \cup lt[t].fields
             /\ \A u \in Threads : \A i \in 1..Len(stack[u]) :
                   stack[u][i] = H =>
                     /\ stack'[u][i] = H
                     /\ logger'[stack'[u][i]] = logger[H] \cup lt[t].fields]_vars

\* a thread has added fields to a forked handle that another thread has in
\* scope too; the handle now differs from the handle it was forked from
C8_Witness ==
  \E t, u \in Threads :
    /\ t # u
    /\ LIdleAfter(t, "add_log_fields")
    /\ lt[t].log # Root
    /\ stack[u] # << >> /\ Top(stack[u]) = lt[t].log
    /\ lt[t].fields \subseteq logger[lt[t].log]
    /\ logger[lt[t].log] # logger[forkedFrom[lt[t].log]]

\* C9: fork() returns a handle that did not exist, holding the fields of the
\* current log at the fork, and changes no other logger; add_log_fields
\* changes the logger of the handle it resolved and of no other handle.
C9_ForkIndependent ==
  [][\A t \in Threads :
       /\ (lt[t].pc = "fork_new" /\ lt'[t].pc = "idle") =>
            /\ lt'[t].res \notin DOMAIN logger
            /\ lt'[t].res \in DOMAIN logger'
            /\ logger'[lt'[t].res] = logger[CurrentLog(t)]
            /\ \A h \in DOMAIN logger : logger'[h] = logger[h]
       /\ (lt[t].pc = "alf_assign" /\ lt'[t].pc = "idle") =>
            \A h \in DOMAIN logger : h # CurrentLog(t) => logger'[h] = logger[h]]_vars

\* a forked handle and its parent have each received a field the other lacks
C9_Witness ==
  \E c \in Handles :
    /\ c # Root
    /\ logger[c] \ logger[forkedFrom[c]] # {}
    /\ logger[forkedFrom[c]] \ logger[c] # {}

\* C10: a step that changes the stack of one thread changes neither the stack
\* nor the current_log() of another, and a thread with no scope of its own
\* resolves the root log whatever scopes the others have.
C10_StacksIsolated ==
  [][\A t, u \in Threads :
       /\ (t # u /\ stack'[t] # stack[t]) =>
            /\ stack'[u] = stack[u]
            /\ CurrentLog(u)' = CurrentLog(u)
       /\ (lt'[u].pc = "idle" /\ lt'[u].op = "current_log" /\ stack'[u] = << >>) =>
            lt'[u].res = Root]_vars

\* one thread is two scopes deep, the inner on a forked handle, while another
\* thread without scope has resolved the root log
C10_Witness ==
  \E t, u \in Threads :
    /\ t # u
    /\ Len(stack[t]) = 2 /\ Top(stack[t]) # Root
    /\ stack[u] = << >>
    /\ LIdleAfter(u, "current_log") /\ lt[u].res = Root

\* the pcs at which a thread holds a guard of the handle it resolved
HoldsWrite(t) == lt[t].pc \in {"alf_derive", "alf_assign"}

HoldsRead(t) == lt[t].pc = "fork_new"

\* C11: a thread that panics while it holds the write or the read lock of a
\* handle leaves the lock released and the logger the one last assigned: a
\* lock is only ever held by a thread that is inside its critical section
\* (never by one that panicked), so the others still take it and go on.
C11_NoPoisoning ==
  /\ [](\A h \in Handles :
          /\ wlock[h] # 0 => (HoldsWrite(wlock[h]) /\ lt[wlock[h]].log = h)
          /\ \A r \in rlock[h] : HoldsRead(r) /\ lt[r].log = h)
  /\ [][\A t \in Threads :
          ((HoldsWrite(t) \/ HoldsRead(t)) /\ lt'[t].op = "panicked") =>
             /\ logger' = logger
             /\ wlock'[lt[t].log] = 0
             /\ t \notin rlock'[lt[t].log]]_vars

\* a thread holds the write lock of a handle, and has derived the logger to
\* assign, after another thread panicked holding a lock of that handle
C11_Witness ==
  \E u \in Threads : \E h \in Handles :
    /\ h \in panics
    /\ wlock[h] = u /\ lt[u].pc = "alf_assign"
    /\ \E t \in Threads \ {u} : lt[t].op = "panicked"

\* C12: single-threaded, a write step of a read-for-encode that fails ends
\* the call at once with that error: the series before it are written, none
\* after it, and the gauge is left with min = max = the value read at the
\* start of the call, the swaps having been done before the first write.
C12_EncodeErrorPropagates ==
  /\ [](Finished(Main, {"encode_err"}) =>
          /\ th[Main].ret \in 1..3 /\ Len(out[Main]) = th[Main].ret - 1
          /\ min = th[Main].current /\ max = th[Main].current
          /\ value = th[Main].current)
  /\ [][(WriteStep(Main) > 0 /\ out'[Main] = out[Main]) =>
          /\ Finished(Main, {"encode_err"})' /\ th'[Main].ret = WriteStep(Main)
          /\ min' = th[Main].current /\ max' = th[Main].current]_vars

\* the write of the min series failed in a read whose range was not a point:
\* the value series alone is written and the range is reset
C12_Witness ==
  /\ Finished(Main, {"encode_err"}) /\ th[Main].ret = 2
  /\ Len(out[Main]) = 1 /\ out[Main][1].val = th[Main].current
  /\ th[Main].emin # th[Main].current /\ th[Main].emax # th[Main].current
  /\ min = th[Main].current /\ max = th[Main].current

\* C13: a read-for-encode emits as the bare-name value the value it has
\* installed as the new min and the new max, whatever the other threads do
\* meanwhile. (The code writes self.get() read again at the write, not the
\* `current` that was swapped in, so this fails when an update falls between.)
C13_EmitsInstalledValue ==
  \A t \in Threads :
    (Finished(t, {"encode"}) /\ Len(out[t]) = 3) => Emitted(t).value = th[t].current

\* thread t does the compare_exchange of update_max / update_min in this step
MaxCasStep(t) == th[t].pc = "umax_cas" /\ th'[t] # th[t]
MinCasStep(t) == th[t].pc = "umin_cas" /\ th'[t] # th[t]

\* C14 as claimed: every compare_exchange of the two loops either succeeds or
\* observes a stored extremum already at least as extreme as the candidate,
\* so the loop ends after that attempt.
C14_CasEndsLoop_AsClaimed ==
  [][\A t \in Threads :
       /\ MaxCasStep(t) => /\ (max = th[t].current \/ U64Le(th[t].new, max))
                           /\ th'[t].pc # "umax_cas"
       /\ MinCasStep(t) => /\ (min = th[t].current \/ U64Le(min, th[t].new))
                           /\ th'[t].pc # "umin_cas"]_vars

\* C14: every compare_exchange of the two loops either succeeds, storing the
\* candidate and ending the loop, or fails and leaves the stored extremum as
\* it is; after a failure the loop ends if the extremum observed is at least
\* as extreme as the candidate, and otherwise goes round again from the
\* extremum observed, which is still short of the candidate.
C14_CasStep ==
  [][\A t \in Threads :
       /\ MaxCasStep(t) =>
            IF max = th[t].current
              THEN max' = th[t].new /\ th'[t].pc # "umax_cas"
              ELSE /\ max' = max
                   /\ U64Le(th[t].new, max) => th'[t].pc # "umax_cas"
                   /\ U64Lt(max, th[t].new) =>
                        th'[t] = [th[t] EXCEPT !.current = max]
       /\ MinCasStep(t) =>
            IF min = th[t].current
              THEN min' = th[t].new /\ th'[t].pc # "umin_cas"
              ELSE /\ min' = min
                   /\ U64Le(min, th[t].new) => th'[t].pc # "umin_cas"
                   /\ U64Lt(th[t].new, min) =>
                        th'[t] = [th[t] EXCEPT !.current = min]]_vars

\* a compare_exchange has failed short of its candidate, and a thread is at
\* a compare_exchange that will now succeed
C14_Witness ==
  /\ retried
  /\ \E t \in Threads :
       \/ th[t].pc = "umax_cas" /\ max = th[t].current /\ U64Lt(max, th[t].new) /\ max # 0
       \/ th[t].pc = "umin_cas" /\ min = th[t].current /\ U64Lt(th[t].new, min)

\* thread t is inside a call
Busy(t) == th[t].pc \notin {"idle", "panicked"}

C16_NoExtremumLost ==
  /\ [](/\ \A c \in recmax : U64Le(c, max)
        /\ \A c \in recmin : U64Le(min, c))
  /\ [][\A t \in Threads :
          /\ (th[t].pc = "enc_swap_max" /\ th'[t].pc = "enc_w_value") =>
               \A c \in recmax : U64Le(c, th'[t].emax)
          /\ (th[t].pc = "enc_swap_min" /\ th'[t].pc = "enc_swap_max") =>
               \A c \in recmin : U64Le(th'[t].emin, c)]_vars

\* a read-for-encode has just swapped max and got the candidate of an update
\* finished before it, the counter being lower again by then, while another
\* compare_exchange had failed and gone round again
C16_Witness ==
  \E t \in Threads :
    /\ th[t].pc = "enc_w_value" /\ recmax = {}
    /\ U64Lt(value, th[t].emax) /\ U64Lt(th[t].current, th[t].emax)
    /\ retried

\* C17: no step of inc or inc_by writes min, no step of dec or dec_by writes
\* max, no step of get writes value, min or max; so once decrements and
\* gets have returned, max is still at least every value the counter has
\* held since the last read-for-encode.
C17_OtherExtremumUntouched ==
  /\ [][/\ th'[Main].op \in {"inc", "inc_by"} => min' = min
        /\ th'[Main].op \in {"dec", "dec_by"} => max' = max
        /\ th'[Main].op = "get" => (value' = value /\ min' = min /\ max' = max)]_vars
  /\ [](Finished(Main, {"dec", "dec_by", "get"}) =>
          /\ \A x \in hist : U64Le(x, max)
          /\ max = pre.max)

\* a decrement that lowered min has returned, below a max that an earlier
\* increment recorded and an earlier decrement had already left behind
C17_Witness ==
  /\ Finished(Main, {"dec", "dec_by"})
  /\ min < pre.min /\ pre.value < pre.max /\ max = pre.max
  /\ max \in hist /\ Cardinality(hist) >= 3

\* the threads inside the critical section of add_log_fields on handle h
Writers(h) == {t \in Threads : HoldsWrite(t) /\ lt[t].log = h}

\* C18: add_log_fields calls on one handle run their critical sections one
\* at a time and apart from the read of a fork; no logger ever loses a field,
\* so after two threads have each completed an add on H, H carries what it
\* had plus both field sets; a fork takes the fields of its parent while no
\* add on the parent is between its lock and its assignment.
C18_AddsSerialize ==
  /\ [](\A h \in Handles :
          /\ Cardinality(Writers(h)) <= 1
          /\ Writers(h) # {} => rlock[h] = {})
  /\ [](\A t \in Threads :
          LIdleAfter(t, "add_log_fields") => lt[t].fields \subseteq logger[lt[t].log])
  /\ [][/\ \A h \in Handles : logger[h] \subseteq logger'[h]
        /\ \A t \in Threads :
             (lt[t].pc = "fork_new" /\ lt'[t].pc = "idle") =>
                /\ Writers(lt[t].log) = {}
                /\ logger'[lt'[t].res] = logger[lt[t].log]]_vars

\* two threads have each completed an add of a different field on the same
\* handle, which carries both; a child forked from it between the two adds
\* carries exactly one of them
C18_Witness ==
  \E t, u \in Threads : \E c \in Handles :
    /\ t # u /\ c # Root
    /\ LIdleAfter(t, "add_log_fields") /\ LIdleAfter(u, "add_log_fields")
    /\ lt[t].log = lt[u].log /\ lt[t].fields # lt[u].fields
    /\ (lt[t].fields \cup lt[u].fields) \subseteq logger[lt[t].log]
    /\ forkedFrom[c] = lt[t].log
    /\ logger[c] = lt[u].fields

\* the fields of the adds that have completed on the root log, as far as the
\* threads still hold them
RootAdded == UNION {lt[u].fields : u \in {w \in Threads :
                       LIdleAfter(w, "add_log_fields") /\ lt[w].log = Root}}

\* C19: add_log_fields called on an empty stack resolves the root log and
\* replaces the root logger by one with the fields added; from then on every
\* thread whose current log is root reads them, and a later fork from root
\* gives a child that carries them.
C19_AddOnEmptyStackHitsRoot ==
  [][\A t \in Threads :
       /\ (lt[t].pc = "idle" /\ lt'[t].pc = "alf_write" /\ stack[t] = << >>) =>
            lt'[t].log = Root
       /\ (lt[t].pc = "alf_assign" /\ lt'[t].pc = "idle" /\ stack[t] = << >>) =>
            /\ lt[t].log = Root
            /\ logger'[Root] = logger[Root] \cup lt[t].fields
            /\ \A u \in Threads :
                 CurrentLog(u)' = Root => lt[t].fields \subseteq logger'[CurrentLog(u)']
       /\ (lt[t].pc = "fork_new" /\ lt'[t].pc = "idle" /\ lt[t].log = Root) =>
            RootAdded \subseteq logger'[lt'[t].res]]_vars

\* a thread outside every scope has added a field; another thread, outside
\* every scope too, has then forked a child that carries the field
C19_Witness ==
  \E t, u \in Threads : \E c \in Handles :
    /\ t # u /\ c # Root
    /\ LIdleAfter(t, "add_log_fields") /\ stack[t] = << >> /\ lt[t].log = Root
    /\ LIdleAfter(u, "fork") /\ stack[u] = << >> /\ lt[u].res = c
    /\ forkedFrom[c] = Root
    /\ lt[t].fields # {} /\ lt[t].fields \subseteq logger[c]

\* C20: when every thread calls dec_by(v) only after an inc_by(v) of its own
\* has returned that it has not matched yet, the counter never goes below
\* zero: a dec_by(v) about to decrement finds value >= v, it observes
\* prev >= v, and its candidate prev - v does not wrap (a value below zero
\* stands for a wrapped u64).
C20_MatchedDecNoUnderflow ==
  /\ value >= 0
  /\ \A t \in Threads :
       /\ th[t].pc = "dec_fetch" => (value >= th[t].v /\ ~SubOverflows(value, th[t].v))
       /\ (th[t].op = "dec_by" /\ th[t].pc \in {"umin_load", "umin_cas"}) =>
            /\ th[t].prev >= th[t].v
            /\ th[t].new = th[t].prev - th[t].v /\ th[t].new >= 0
       /\ th[t].pc # "panicked"

\* both threads have taken back what they had added, one of them 2 and the
\* other 1, and the counter is back at zero under a max of 3
C20_Witness ==
  /\ Quiescent /\ value = 0 /\ max = 3 /\ min = 0
  /\ \A t \in Threads : Finished(t, {"dec_by"}) /\ th[t].ret > 0
  /\ \E t, u \in Threads : th[t].v = 2 /\ th[u].v = 1

====
